---- MODULE Spec2Model ----
(***************************************************************************)
(* Model of the spreadsheet add-on's range resolution and batch prompt     *)
(* dispatch: SpreadsheetService (getDataFromRange, writeDataToRange,       *)
(* getHeaderRow, setHeaderRow) and PromptService.processCustomPrompt with  *)
(* its per-row model calls.                                                *)
(*                                                                         *)
(* Strings the code inspects (prompt, model identifier, stored header-row  *)
(* property) are sequences of one-character strings, so toLowerCase,       *)
(* includes, toString and parseInt are computed, not assumed.              *)
(***************************************************************************)
EXTENDS Integers, Sequences, FiniteSets, TLC

(* ------------------------------ bounds -------------------------------- *)

\* Largest last populated row of a sheet.
MaxRow == 3

\* Largest header row handed to setHeaderRow.
MaxHeader == 2

(* ------------------------------ strings ------------------------------- *)

UpperChars ==
    <<"A", "B", "C", "D", "E", "F", "G", "H", "I", "J", "K", "L", "M",
      "N", "O", "P", "Q", "R", "S", "T", "U", "V", "W", "X", "Y", "Z">>

LowerChars ==
    <<"a", "b", "c", "d", "e", "f", "g", "h", "i", "j", "k", "l", "m",
      "n", "o", "p", "q", "r", "s", "t", "u", "v", "w", "x", "y", "z">>

DigitChars == <<"0", "1", "2", "3", "4", "5", "6", "7", "8", "9">>

IndexOf(seq, c) == CHOOSE i \in 1..Len(seq) : seq[i] = c

IsUpper(c) == \E i \in 1..Len(UpperChars) : UpperChars[i] = c

IsDigit(c) == \E i \in 1..Len(DigitChars) : DigitChars[i] = c

\* String.prototype.toLowerCase
ToLowerCase(s) ==
    [i \in 1..Len(s) |->
        IF IsUpper(s[i]) THEN LowerChars[IndexOf(UpperChars, s[i])] ELSE s[i]]

\* String.prototype.includes
Includes(s, sub) ==
    \E i \in 0..(Len(s) - Len(sub)) : SubSeq(s, i + 1, i + Len(sub)) = sub

RECURSIVE NatToString(_)
NatToString(n) ==
    IF n < 10 THEN <<DigitChars[n + 1]>>
    ELSE NatToString(n \div 10) \o <<DigitChars[(n % 10) + 1]>>

\* Number.prototype.toString, for an integer
NumberToString(n) == IF n < 0 THEN <<"-">> \o NatToString(-n) ELSE NatToString(n)

RECURSIVE DigitsValue(_, _)
DigitsValue(s, acc) ==
    IF s = <<>> \/ ~IsDigit(Head(s)) THEN acc
    ELSE DigitsValue(Tail(s), 10 * acc + (IndexOf(DigitChars, Head(s)) - 1))

\* parseInt: optional sign, then the leading run of decimal digits
ParseInt(s) ==
    IF s # <<>> /\ Head(s) = "-" THEN 0 - DigitsValue(Tail(s), 0)
    ELSE DigitsValue(s, 0)

Min(a, b) == IF a < b THEN a ELSE b

Max(a, b) == IF a > b THEN a ELSE b

(* ----------------------------- spreadsheet ---------------------------- *)

\* The sheets of the active spreadsheet; any other name is not found.
SheetNames == {"Sheet1", "Sheet2"}

ColumnA == <<"A">>

ColumnB == <<"B">>

\* The value a cell of the input column holds before any write.
InputCell(sheet, row) == [kind |-> "input", sheet |-> sheet, row |-> row]

EmptyCell == [kind |-> "empty", sheet |-> "", row |-> 0]

\* The k-th value of a data array handed to writeDataToRange directly.
DataCell(k) == [kind |-> "data", sheet |-> "", row |-> k]

\* The provider's answer to the prompt combined with one cell's content.
Reply(cell) == [kind |-> "reply", sheet |-> cell.sheet, row |-> cell.row]

VARIABLES
    lastRow,      \* sheet -> last populated row (Sheet.getLastRow)
    cells,        \* sheet -> column index -> row -> cell value
    userProps,    \* user properties: sheet -> stored `<sheet>_headerRow` string
    headerPref,   \* sheet -> the header row last handed to setHeaderRow, if any
    scriptProps,  \* names of the script properties that hold a credential
    config,       \* the PromptConfig of the invocation
    pc,           \* "idle", "awaiting" (suspended on Promise.all) or "done"
    calls,        \* per input row: its model call (state, input, type, model,
                  \* reply or error, and its rank in the order of settling)
    result,       \* the PromptResult returned (thrown: it came out of the catch;
                  \* fault: the error reached the caller instead)
    reads,        \* getDataFromRange calls made by the invocation: what each read
    requests,     \* HTTP requests sent, in order: [provider, index, model, type]
    writes,       \* writeDataToRange calls made by the invocation: rows written
    lastRead,     \* outcome of the last direct getDataFromRange call
    lastWrite     \* outcome of the last direct writeDataToRange call

vars ==
    <<lastRow, cells, userProps, headerPref, scriptProps, config, pc, calls,
      result, reads, requests, writes, lastRead, lastWrite>>

\* letterToColumn: 'A' -> 1, 'B' -> 2, 'AA' -> 27
LetterToColumn(letter) ==
    LET RECURSIVE Sum(_, _)
        Sum(i, acc) ==
            IF i > Len(letter) THEN acc
            ELSE Sum(i + 1, 26 * acc + IndexOf(UpperChars, letter[i]))
    IN  Sum(1, 0)

\* getHeaderRow: the stored property parsed, or 1 when none (or empty) is stored
GetHeaderRow(sheet) ==
    IF sheet \in DOMAIN userProps /\ userProps[sheet] # <<>>
    THEN ParseInt(userProps[sheet])
    ELSE 1

\* EffectiveStartRow with 'auto' resolved to the header row itself.
EffectiveStartRowAtHeader(range) ==
    IF range.startRow.auto THEN GetHeaderRow(range.sheet) ELSE range.startRow.n

\* range.startRow === 'auto' ? headerRow + 1 : range.startRow
EffectiveStartRow(range) ==
    IF range.startRow.auto THEN GetHeaderRow(range.sheet) + 1 ELSE range.startRow.n

\* lastRow - effectiveStartRow + 1
AvailableRows(range) == lastRow[range.sheet] - EffectiveStartRow(range) + 1

\* range.rowCount === 'all' ? availableRows : Math.min(range.rowCount, availableRows)
EffectiveRowCount(range) ==
    IF range.rowCount.all THEN AvailableRows(range)
    ELSE Min(range.rowCount.n, AvailableRows(range))

\* Sheet.getRange(row, column, numRows, 1) rejects a start row or column below
\* 1 and a row count below 1 with an exception.
GetRangeThrows(row, column, numRows) == row < 1 \/ column < 1 \/ numRows < 1

SheetNotFound(sheet) == <<"Sheet not found: ", sheet>>

RangeRejected == <<"The range is not valid">>

\* getDataFromRange: the values read, with the resolution that led to them.
GetDataFromRange(range) ==
    IF range.sheet \notin SheetNames
    THEN [threw |-> TRUE, effectiveStartRow |-> 0, effectiveRowCount |-> 0,
          rowsRead |-> {}, data |-> <<>>]
    ELSE
        LET s == EffectiveStartRow(range)
            n == EffectiveRowCount(range)
            col == LetterToColumn(range.column)
        IN  IF GetRangeThrows(s, col, n)
            THEN [threw |-> TRUE, effectiveStartRow |-> s, effectiveRowCount |-> n,
                  rowsRead |-> {}, data |-> <<>>]
            ELSE [threw |-> FALSE, effectiveStartRow |-> s, effectiveRowCount |-> n,
                  rowsRead |-> s..(s + n - 1),
                  data |-> [i \in 1..n |-> cells[range.sheet][col][s + i - 1]]]

\* Array.prototype.slice(0, end) for end >= 0
SliceTo(data, end) == SubSeq(data, 1, Min(end, Len(data)))

\* Number of rows writeDataToRange asks getRange for.
WriteRangeRows(range, data) == Min(EffectiveRowCount(range), Len(data))

\* writeDataToRange: the ProcessingResult, with the cells after the write.
WriteDataToRange(range, data) ==
    IF range.sheet \notin SheetNames
    THEN [success |-> FALSE, message |-> SheetNotFound(range.sheet),
          effectiveStartRow |-> 0, effectiveRowCount |-> 0,
          rowsWritten |-> {}, cells |-> cells]
    ELSE
        LET s == EffectiveStartRow(range)
            n == EffectiveRowCount(range)
            col == LetterToColumn(range.column)
            rows == WriteRangeRows(range, data)
        IN  IF GetRangeThrows(s, col, rows)
            THEN [success |-> FALSE, message |-> RangeRejected,
                  effectiveStartRow |-> s, effectiveRowCount |-> n,
                  rowsWritten |-> {}, cells |-> cells]
            ELSE
                LET values == SliceTo(data, n)
                IN  [success |-> TRUE, message |-> <<"Successfully wrote rows of data">>,
                     effectiveStartRow |-> s, effectiveRowCount |-> n,
                     rowsWritten |-> s..(s + Len(values) - 1),
                     cells |->
                        [cells EXCEPT ![range.sheet][col] =
                            [r \in DOMAIN @ |->
                                IF r \in s..(s + Len(values) - 1)
                                THEN values[r - s + 1] ELSE @[r]]]]

(* --------------------- SpreadsheetService, called directly ------------ *)

\* Start rows and row counts of a SpreadsheetRange: a number or the sentinel.
StartRows ==
    {[auto |-> TRUE, n |-> 0]} \cup {[auto |-> FALSE, n |-> k] : k \in 0..(MaxRow + 1)}

RowCounts ==
    {[all |-> TRUE, n |-> 0]} \cup {[all |-> FALSE, n |-> k] : k \in 0..(MaxRow + 1)}

HeaderRows == 0..MaxHeader

NoRange ==
    [sheet |-> "", column |-> <<>>, startRow |-> [auto |-> FALSE, n |-> 0],
     rowCount |-> [all |-> FALSE, n |-> 0]]

NoRead ==
    [called |-> FALSE, range |-> NoRange, threw |-> FALSE, effectiveStartRow |-> 0,
     effectiveRowCount |-> 0, rowsRead |-> {}, data |-> <<>>]

NoWrite ==
    [called |-> FALSE, range |-> NoRange, dataLength |-> 0, success |-> FALSE,
     message |-> <<>>, effectiveStartRow |-> 0, effectiveRowCount |-> 0,
     rowsWritten |-> {}]

NoConfig ==
    [modelType |-> "", inputSheet |-> "", inputColumn |-> <<>>, outputSheet |-> "",
     outputColumn |-> <<>>, startRow |-> 0, rowMode |-> "", rowCount |-> <<>>,
     prompt |-> <<>>, model |-> <<>>]

NoResult ==
    [returned |-> FALSE, fault |-> FALSE, thrown |-> FALSE, success |-> FALSE,
     message |-> <<>>, results |-> <<>>]

\* A spreadsheet whose sheets have any extent up to MaxRow: column A holds
\* the input values down to the last populated row, column B is empty.
InitSheets ==
    /\ lastRow \in [SheetNames -> 0..MaxRow]
    /\ cells =
        [sh \in SheetNames |->
            [c \in 1..2 |->
                [r \in 1..MaxRow |->
                    IF c = 1 /\ r <= lastRow[sh] THEN InputCell(sh, r) ELSE EmptyCell]]]

InitSheet ==
    /\ InitSheets
    /\ userProps = <<>>
    /\ headerPref = [sh \in SheetNames |-> [set |-> FALSE, n |-> 0]]
    /\ scriptProps = {}
    /\ config = NoConfig
    /\ pc = "idle"
    /\ calls = <<>>
    /\ result = NoResult
    /\ reads = <<>>
    /\ requests = <<>>
    /\ writes = <<>>
    /\ lastRead = NoRead
    /\ lastWrite = NoWrite

NoDirectCallYet == ~lastRead.called /\ ~lastWrite.called

\* setHeaderRow(sheetName, headerRow)
SetHeaderRow(sheet, headerRow) ==
    /\ NoDirectCallYet
    /\ userProps' = (sheet :> NumberToString(headerRow)) @@ userProps
    /\ headerPref' = [headerPref EXCEPT ![sheet] = [set |-> TRUE, n |-> headerRow]]
    /\ UNCHANGED <<lastRow, cells, scriptProps, config, pc, calls, result, reads,
                   requests, writes, lastRead, lastWrite>>

\* A direct call of getDataFromRange(range)
ReadRange(range) ==
    /\ NoDirectCallYet
    /\ lastRead' = [called |-> TRUE, range |-> range] @@ GetDataFromRange(range)
    /\ UNCHANGED <<lastRow, cells, userProps, headerPref, scriptProps, config, pc,
                   calls, result, reads, requests, writes, lastWrite>>

\* A direct call of writeDataToRange(range, data)
WriteRange(range, data) ==
    LET w == WriteDataToRange(range, data)
    IN  /\ NoDirectCallYet
        /\ cells' = w.cells
        /\ lastWrite' =
            [called |-> TRUE, range |-> range, dataLength |-> Len(data),
             success |-> w.success, message |-> w.message,
             effectiveStartRow |-> w.effectiveStartRow,
             effectiveRowCount |-> w.effectiveRowCount,
             rowsWritten |-> w.rowsWritten]
        /\ UNCHANGED <<lastRow, userProps, headerPref, scriptProps, config, pc,
                       calls, result, reads, requests, writes, lastRead>>

DirectRanges(column) ==
    [sheet : SheetNames \cup {"Gone"}, column : {column},
     startRow : StartRows, rowCount : RowCounts]

DirectData == {[k \in 1..len |-> DataCell(k)] : len \in 0..(MaxRow + 1)}

NextSheet ==
    \/ \E sh \in SheetNames, h \in HeaderRows : SetHeaderRow(sh, h)
    \/ \E range \in DirectRanges(ColumnA) : ReadRange(range)
    \/ \E range \in DirectRanges(ColumnB), data \in DirectData : WriteRange(range, data)

SpecSheet == InitSheet /\ [][NextSheet]_vars

(* --------------------------- PromptService ---------------------------- *)

\* 'search the web'
SearchCue ==
    <<"s", "e", "a", "r", "c", "h", " ", "t", "h", "e", " ", "w", "e", "b">>

\* 'llama-3.1-sonar'
SearchFamily ==
    <<"l", "l", "a", "m", "a", "-", "3", ".", "1", "-", "s", "o", "n", "a",
      "r">>

\* 'llama-3.1-sonar-small-128k-online'
SonarSmall ==
    <<"l", "l", "a", "m", "a", "-", "3", ".", "1", "-", "s", "o", "n", "a",
      "r", "-", "s", "m", "a", "l", "l", "-", "1", "2", "8", "k", "-", "o",
      "n", "l", "i", "n", "e">>

\* 'llama-3.1-sonar-large-128k-online'
SonarLarge ==
    <<"l", "l", "a", "m", "a", "-", "3", ".", "1", "-", "s", "o", "n", "a",
      "r", "-", "l", "a", "r", "g", "e", "-", "1", "2", "8", "k", "-", "o",
      "n", "l", "i", "n", "e">>

\* 'llama-3.1-sonar-huge-128k-online'
SonarHuge ==
    <<"l", "l", "a", "m", "a", "-", "3", ".", "1", "-", "s", "o", "n", "a",
      "r", "-", "h", "u", "g", "e", "-", "1", "2", "8", "k", "-", "o", "n",
      "l", "i", "n", "e">>

\* 'gpt-4', a generation model
Gpt4 ==
    <<"g", "p", "t", "-", "4">>

\* 'llama-3.1-sonar-pro': of the search family, not one of the three valid models
SonarPro ==
    <<"l", "l", "a", "m", "a", "-", "3", ".", "1", "-", "s", "o", "n", "a",
      "r", "-", "p", "r", "o">>

\* 'Write a short greeting'
PromptGreeting ==
    <<"W", "r", "i", "t", "e", " ", "a", " ", "s", "h", "o", "r", "t", " ",
      "g", "r", "e", "e", "t", "i", "n", "g">>

\* 'search the web for'
PromptCueLower ==
    <<"s", "e", "a", "r", "c", "h", " ", "t", "h", "e", " ", "w", "e", "b",
      " ", "f", "o", "r">>

\* 'Please Search The WEB'
PromptCueMixed ==
    <<"P", "l", "e", "a", "s", "e", " ", "S", "e", "a", "r", "c", "h", " ",
      "T", "h", "e", " ", "W", "E", "B">>

\* 'search the  web' (two spaces): no cue
PromptNearCue ==
    <<"s", "e", "a", "r", "c", "h", " ", "t", "h", "e", " ", " ", "w", "e",
      "b">>

DefaultSearchModel == SonarSmall

ValidModels == {SonarSmall, SonarLarge, SonarHuge}

ModelTypes == {"language", "search", "image"}

MsgInvalidModelType == <<"Invalid model type">>

MsgInvalidStartRow == <<"Invalid start row">>

MsgNoInput == <<"No input data found in the specified range">>

MsgModelUnspecified == <<"Model must be specified">>

MsgImage == <<"Image model not implemented yet">>

MsgOpenAIKey == <<"OpenAI API key not found in script properties">>

MsgPerplexityKey == <<"Perplexity API key not found in script properties">>

MsgInvalidSearchModel == <<"Invalid Perplexity model">>

MsgProvider == <<"provider error">>

AIModelError(message) == <<"AI Model Error: ">> \o message

SearchModelError(message) == <<"Search Model Error: ">> \o message

\* ShouldUseSearch without the toLowerCase.
ShouldUseSearchCaseSensitive(c) == Includes(c.prompt, SearchCue)

\* config.prompt.toLowerCase().includes('search the web')
ShouldUseSearch(c) == Includes(ToLowerCase(c.prompt), SearchCue)

\* shouldUseSearch ? 'search' : config.modelType
EffectiveModelType(c) == IF ShouldUseSearch(c) THEN "search" ELSE c.modelType

\* The model after the coercion of a search invocation's model.
EffectiveModel(c) ==
    IF ShouldUseSearch(c) /\ ~Includes(c.model, SearchFamily)
    THEN DefaultSearchModel
    ELSE c.model

\* InvalidStartRow that lets row 0 through.
InvalidStartRowNegativeOnly(c) == c.startRow < 0

\* !config.startRow || config.startRow < 1
InvalidStartRow(c) == c.startRow = 0 \/ c.startRow < 1

\* ConfigRowCount without the coercion of a fixed count to at least 1.
ConfigRowCountUncoerced(c) ==
    IF c.rowMode = "all" THEN [all |-> TRUE, n |-> 0]
    ELSE IF c.rowMode = "3rows" THEN [all |-> FALSE, n |-> 3]
    ELSE [all |-> FALSE, n |-> IF c.rowCount = <<>> THEN 1 ELSE c.rowCount[1]]

\* The row count handed to the spreadsheet service, by row mode.
ConfigRowCount(c) ==
    IF c.rowMode = "all" THEN [all |-> TRUE, n |-> 0]
    ELSE IF c.rowMode = "3rows" THEN [all |-> FALSE, n |-> 3]
    ELSE [all |-> FALSE,
          n |-> Max(1, IF c.rowCount = <<>> \/ c.rowCount[1] = 0 THEN 1 ELSE c.rowCount[1])]

InputRange(c) ==
    [sheet |-> c.inputSheet, column |-> c.inputColumn,
     startRow |-> [auto |-> FALSE, n |-> c.startRow], rowCount |-> ConfigRowCount(c)]

OutputRange(c) ==
    [sheet |-> c.outputSheet, column |-> c.outputColumn,
     startRow |-> [auto |-> FALSE, n |-> c.startRow], rowCount |-> ConfigRowCount(c)]

\* rowsToProcess, and inputData.slice(0, rowsToProcess)
RowsToProcess(c, inputData) ==
    IF ConfigRowCount(c).all THEN Len(inputData) ELSE ConfigRowCount(c).n

\* LanguagePreflight that looks for OPENAI_API_KEY only.
LanguagePreflightOpenAIKeyOnly(model) ==
    IF "OPENAI_API_KEY" \notin scriptProps THEN AIModelError(MsgOpenAIKey) ELSE <<>>

\* callLanguageModel up to the HTTP request: the error thrown, or <<>>.
LanguagePreflight(model) ==
    IF "OPENAI_API_KEY" \notin scriptProps /\ "API_KEY" \notin scriptProps
    THEN AIModelError(MsgOpenAIKey)
    ELSE <<>>

\* callSearchModel up to the HTTP request: the error thrown, or <<>>.
SearchPreflight(model) ==
    IF "PERPLEXITY_API_KEY" \notin scriptProps THEN SearchModelError(MsgPerplexityKey)
    ELSE IF model \notin ValidModels THEN SearchModelError(MsgInvalidSearchModel)
    ELSE <<>>

\* Preflight with the image type handed to the language model.
PreflightImageAsLanguage(model, modelType) ==
    IF model = <<>> THEN MsgModelUnspecified
    ELSE IF modelType = "language" \/ modelType = "image" THEN LanguagePreflight(model)
    ELSE IF modelType = "search" THEN SearchPreflight(model)
    ELSE <<"Unknown model type">>

\* callAIModel up to the HTTP request: the error thrown, or <<>>.
Preflight(model, modelType) ==
    IF model = <<>> THEN MsgModelUnspecified
    ELSE IF modelType = "language" THEN LanguagePreflight(model)
    ELSE IF modelType = "search" THEN SearchPreflight(model)
    ELSE IF modelType = "image" THEN MsgImage
    ELSE <<"Unknown model type">>

\* The provider a model type's request goes to.
Provider(modelType) == IF modelType = "search" THEN "perplexity" ELSE "openai"

\* The error a provider-reported error becomes.
ProviderError(modelType) ==
    IF modelType = "search" THEN SearchModelError(MsgProvider)
    ELSE AIModelError(MsgProvider)

\* Caught with the error thrown again to the caller.
Rethrown(message) ==
    [returned |-> FALSE, fault |-> TRUE, thrown |-> TRUE, success |-> FALSE,
     message |-> message, results |-> <<>>]

\* The catch of processCustomPrompt: the error becomes a structured result.
Caught(message) ==
    [returned |-> TRUE, fault |-> FALSE, thrown |-> TRUE, success |-> FALSE,
     message |-> message, results |-> <<>>]

\* NoInputResult with the empty range thrown as an error, like a validation.
NoInputThrown == Caught(MsgNoInput)

\* The early return for an empty input range.
NoInputResult ==
    [returned |-> TRUE, fault |-> FALSE, thrown |-> FALSE, success |-> FALSE,
     message |-> MsgNoInput, results |-> <<>>]

Succeeded(results) ==
    [returned |-> TRUE, fault |-> FALSE, thrown |-> FALSE, success |-> TRUE,
     message |-> <<"Successfully processed rows">>, results |-> results]

\* Gather with the results in the order the calls completed.
GatherInCompletionOrder(cs) ==
    [k \in 1..Len(cs) |-> cs[CHOOSE i \in 1..Len(cs) : cs[i].order = k].reply]

\* The results Promise.all resolves to: slot i holds call i's result.
Gather(cs) == [i \in 1..Len(cs) |-> cs[i].reply]

\* Number of calls that have completed or failed.
Settled(cs) == Cardinality({i \in 1..Len(cs) : cs[i].state # "sent"})

\* AllOk that is satisfied by the first call to complete.
AnyOk(cs) == \E i \in 1..Len(cs) : cs[i].state = "ok"

AllOk(cs) == \A i \in 1..Len(cs) : cs[i].state = "ok"

\* The write-back and the return that follow Promise.all resolving.
WriteBack(cs) ==
    LET results == Gather(cs)
        w == WriteDataToRange(OutputRange(config), results)
    IN  /\ cells' = w.cells
        /\ writes' = Append(writes,
                [sheet |-> config.outputSheet, success |-> w.success,
                 effectiveStartRow |-> w.effectiveStartRow,
                 effectiveRowCount |-> w.effectiveRowCount,
                 rowsWritten |-> w.rowsWritten])
        /\ result' = IF w.success THEN Succeeded(results) ELSE Caught(w.message)
        /\ pc' = "done"

\* processCustomPrompt from its entry to the await of Promise.all (or to its
\* return, when it returns before any request is in flight).
Invoke ==
    /\ pc = "idle"
    /\ config # NoConfig
    /\ LET type == EffectiveModelType(config)
           model == EffectiveModel(config)
       IN  IF type \notin ModelTypes
           THEN /\ result' = Caught(MsgInvalidModelType)
                /\ pc' = "done"
                /\ UNCHANGED <<calls, reads, requests>>
           ELSE IF InvalidStartRow(config)
           THEN /\ result' = Caught(MsgInvalidStartRow)
                /\ pc' = "done"
                /\ UNCHANGED <<calls, reads, requests>>
           ELSE
             LET read == GetDataFromRange(InputRange(config))
                 inputData == read.data
                 inputs == SliceTo(inputData, RowsToProcess(config, inputData))
                 error == Preflight(model, type)
             IN  /\ reads' = Append(reads,
                        [sheet |-> config.inputSheet,
                         effectiveStartRow |-> read.effectiveStartRow,
                         effectiveRowCount |-> read.effectiveRowCount,
                         rowsRead |-> read.rowsRead, length |-> Len(inputData)])
                 /\ IF inputData = <<>>
                    THEN /\ result' = NoInputResult
                         /\ pc' = "done"
                         /\ UNCHANGED <<calls, requests>>
                    ELSE IF error # <<>>
                    THEN /\ calls' = [i \in 1..Len(inputs) |->
                                [state |-> "failed", input |-> inputs[i],
                                 type |-> type, model |-> model,
                                 reply |-> EmptyCell, error |-> error, order |-> 0]]
                         /\ result' = Caught(error)
                         /\ pc' = "done"
                         /\ UNCHANGED requests
                    ELSE /\ calls' = [i \in 1..Len(inputs) |->
                                [state |-> "sent", input |-> inputs[i],
                                 type |-> type, model |-> model,
                                 reply |-> EmptyCell, error |-> <<>>, order |-> 0]]
                         /\ requests' = [i \in 1..Len(inputs) |->
                                [provider |-> Provider(type), index |-> i,
                                 model |-> model, type |-> type]]
                         /\ UNCHANGED result
                         /\ pc' = "awaiting"
    /\ UNCHANGED <<lastRow, cells, userProps, headerPref, scriptProps, config,
                   writes, lastRead, lastWrite>>

\* The provider answers call i with a completion.
RespondOk(i) ==
    /\ pc = "awaiting"
    /\ i \in 1..Len(calls)
    /\ calls[i].state = "sent"
    /\ calls' = [calls EXCEPT ![i].state = "ok", ![i].reply = Reply(calls[i].input),
                              ![i].order = Settled(calls) + 1]
    /\ IF AllOk(calls')
       THEN WriteBack(calls')
       ELSE UNCHANGED <<cells, writes, result, pc>>
    /\ UNCHANGED <<lastRow, userProps, headerPref, scriptProps, config, reads,
                   requests, lastRead, lastWrite>>

\* RespondError with the row's error kept to the row: the batch goes on and
\* is written once every call has settled.
RespondErrorIsolated(i) ==
    /\ pc = "awaiting"
    /\ i \in 1..Len(calls)
    /\ calls[i].state = "sent"
    /\ calls' = [calls EXCEPT ![i].state = "failed",
                              ![i].error = ProviderError(calls[i].type),
                              ![i].order = Settled(calls) + 1]
    /\ IF Settled(calls') = Len(calls')
       THEN WriteBack(calls')
       ELSE UNCHANGED <<cells, writes, result, pc>>
    /\ UNCHANGED <<lastRow, userProps, headerPref, scriptProps, config, reads,
                   requests, lastRead, lastWrite>>

\* RespondError with the request sent again after a provider error.
RespondErrorRetried(i) ==
    /\ pc = "awaiting"
    /\ i \in 1..Len(calls)
    /\ calls[i].state = "sent"
    /\ requests' = Append(requests, requests[i])
    /\ UNCHANGED <<lastRow, cells, userProps, headerPref, scriptProps, config, pc,
                   calls, result, reads, writes, lastRead, lastWrite>>

\* The provider answers call i with an error payload: the call's promise
\* rejects, Promise.all rejects with it and the catch returns.
RespondError(i) ==
    /\ pc = "awaiting"
    /\ i \in 1..Len(calls)
    /\ calls[i].state = "sent"
    /\ calls' = [calls EXCEPT ![i].state = "failed",
                              ![i].error = ProviderError(calls[i].type),
                              ![i].order = Settled(calls) + 1]
    /\ result' = Caught(ProviderError(calls[i].type))
    /\ pc' = "done"
    /\ UNCHANGED <<lastRow, cells, userProps, headerPref, scriptProps, config,
                   reads, requests, writes, lastRead, lastWrite>>

Next ==
    \/ Invoke
    \/ \E i \in 1..MaxRow : RespondOk(i)
    \/ \E i \in 1..MaxRow : RespondError(i)

(* ------------------------- the invocations checked -------------------- *)

RowSpecs ==
    {[rowMode |-> "all", rowCount |-> <<>>], [rowMode |-> "3rows", rowCount |-> <<>>],
     [rowMode |-> "fixed", rowCount |-> <<>>]}
    \cup {[rowMode |-> "fixed", rowCount |-> <<k>>] : k \in 0..(MaxRow + 1)}

Prompts == {PromptGreeting, PromptCueLower, PromptCueMixed, PromptNearCue}

Models == {Gpt4, SonarSmall, SonarLarge, SonarHuge, SonarPro, <<>>}

CredentialNames == {"OPENAI_API_KEY", "API_KEY", "PERPLEXITY_API_KEY"}

\* Every range and sheet extent, for a generation invocation with its
\* credential stored.
RangeConfigs ==
    {[modelType |-> "language", inputSheet |-> in, inputColumn |-> ColumnA,
      outputSheet |-> out, outputColumn |-> ColumnB, startRow |-> s,
      rowMode |-> rs.rowMode, rowCount |-> rs.rowCount,
      prompt |-> PromptGreeting, model |-> Gpt4] :
        in \in {"Sheet1", "Gone"}, out \in SheetNames \cup {"Gone"},
        s \in -1..(MaxRow + 1), rs \in RowSpecs}

\* Every model type, prompt, model and credential store, for the rows of one
\* sheet from row 1 (or the invalid row 0).
DispatchConfigs ==
    {[modelType |-> mt, inputSheet |-> "Sheet1", inputColumn |-> ColumnA,
      outputSheet |-> "Sheet1", outputColumn |-> ColumnB, startRow |-> s,
      rowMode |-> "all", rowCount |-> <<>>, prompt |-> p, model |-> m] :
        mt \in ModelTypes \cup {"audio"}, s \in {0, 1}, p \in Prompts, m \in Models}

InitIdle ==
    /\ userProps = <<>>
    /\ headerPref = [sh \in SheetNames |-> [set |-> FALSE, n |-> 0]]
    /\ pc = "idle"
    /\ calls = <<>>
    /\ result = NoResult
    /\ reads = <<>>
    /\ requests = <<>>
    /\ writes = <<>>
    /\ lastRead = NoRead
    /\ lastWrite = NoWrite

InitRange ==
    /\ InitSheets
    /\ scriptProps = {"OPENAI_API_KEY"}
    /\ config \in RangeConfigs
    /\ InitIdle

InitDispatch ==
    /\ InitSheets
    /\ lastRow["Sheet1"] = lastRow["Sheet2"]
    /\ scriptProps \in SUBSET CredentialNames
    /\ config \in DispatchConfigs
    /\ InitIdle

Init == InitRange \/ InitDispatch

Spec == Init /\ [][Next]_vars

(* ------------------------------- claims ------------------------------- *)

\* Rows from the effective start row down to the sheet's last populated row.
Remaining(sheet, s) == Max(0, lastRow[sheet] - s + 1)

\* A range as the data model has it: a start row of at least 1 or 'auto', and
\* a row count of at least 1 or 'all'.
WellFormed(range) ==
    /\ range.sheet \in SheetNames
    /\ range.startRow.auto \/ range.startRow.n >= 1
    /\ range.rowCount.all \/ range.rowCount.n >= 1

\* C1: whatever the range and the sheet's extent, the row count getDataFromRange
\* resolves is a non-negative integer no larger than the rows remaining from
\* the effective start row, and no row past the last populated row is read.
C1_ResolvedCountInBounds ==
    (lastRead.called /\ WellFormed(lastRead.range)) =>
        /\ lastRead.effectiveRowCount >= 0
        /\ lastRead.effectiveRowCount
             <= Remaining(lastRead.range.sheet, lastRead.effectiveStartRow)
        /\ \A r \in lastRead.rowsRead : r <= lastRow[lastRead.range.sheet]

\* C2: when processCustomPrompt succeeds, the output cell at row startRow+i
\* holds the model result for the input cell at row startRow+i, for every row
\* i of the read window, whatever the output sheet's extent.
C2_EveryReadRowWritten ==
    (pc = "done" /\ result.success) =>
        \A i \in 1..Len(calls) :
            cells[config.outputSheet][LetterToColumn(config.outputColumn)]
                 [config.startRow + i - 1]
              = Reply(InputCell(config.inputSheet, config.startRow + i - 1))

\* C3: the results are in input order whatever order the calls complete in:
\* results[i] is the response to the prompt built from input value i.
C3_ResultsInInputOrder ==
    (pc = "done" /\ result.success) =>
        /\ Len(result.results) = Len(calls)
        /\ \A i \in 1..Len(calls) :
            result.results[i]
              = Reply(InputCell(config.inputSheet, config.startRow + i - 1))

\* C3 witness: a successful batch whose second call completed before its first.
C3_CompletedOutOfOrder ==
    /\ pc = "done"
    /\ result.success
    /\ Len(calls) >= 2
    /\ calls[2].order < calls[1].order

\* C4: when a per-row call has failed, the invocation returns success=false
\* with that call's error message and nothing is written to any output cell.
C4_FailureAbortsBatch ==
    (pc = "done" /\ \E i \in 1..Len(calls) : calls[i].state = "failed") =>
        /\ result.returned
        /\ ~result.success
        /\ \E i \in 1..Len(calls) :
              calls[i].state = "failed" /\ result.message = calls[i].error
        /\ writes = <<>>
        /\ \A sh \in SheetNames, r \in 1..MaxRow : cells[sh][2][r] = EmptyCell

\* C4 witness: a batch in which one row succeeded and another failed.
C4_FailedAfterARowSucceeded ==
    /\ pc = "done"
    /\ \E i, j \in 1..Len(calls) : calls[i].state = "failed" /\ calls[j].state = "ok"

\* C5: every invocation ends with a structured result, success=true or
\* success=false with a message; no error reaches the caller, and an
\* invocation that has not returned still has a call to wait for.
C5_AlwaysStructuredResult ==
    /\ ~result.fault
    /\ pc = "done" =>
          /\ result.returned
          /\ result.success \/ result.message # <<>>
    /\ pc = "awaiting" => \E i \in 1..Len(calls) : calls[i].state = "sent"
    /\ pc = "idle" => ~result.returned

\* C5 witness: the write-back failed and the failure was returned as a result.
C5_WriteFailureReturned ==
    /\ pc = "done"
    /\ Len(writes) = 1
    /\ ~writes[1].success
    /\ result.returned
    /\ ~result.success

\* C6: in fixed-count mode with configured count r (1 when unset or not
\* positive), the read returns min(r, L-s+1) rows when s <= L and none when
\* s > L, for last populated row L and start row s.
C6_FixedCountRowsRead ==
    (config.rowMode = "fixed" /\ reads # <<>> /\ config.inputSheet \in SheetNames) =>
        LET r == IF config.rowCount = <<>> THEN 1 ELSE Max(1, config.rowCount[1])
            L == lastRow[config.inputSheet]
            s == config.startRow
        IN  reads[1].length = IF s <= L THEN Min(r, L - s + 1) ELSE 0

\* C6 witness: a fixed count larger than the rows remaining was clamped.
C6_FixedCountClamped ==
    /\ config.rowMode = "fixed"
    /\ reads # <<>>
    /\ config.rowCount # <<>>
    /\ reads[1].length >= 1
    /\ reads[1].length < config.rowCount[1]

\* C7: in all-remaining mode the effective row count of a read and of a write
\* is max(0, L-s+1), and a write that starts beyond the sheet's extent is an
\* empty range, not an error.
C7_AllRemainingClamped ==
    /\ (lastRead.called /\ WellFormed(lastRead.range)
          /\ lastRead.range.rowCount.all) =>
            lastRead.effectiveRowCount
              = Remaining(lastRead.range.sheet, lastRead.effectiveStartRow)
    /\ (lastWrite.called /\ WellFormed(lastWrite.range)
          /\ lastWrite.range.rowCount.all) =>
            /\ lastWrite.effectiveRowCount
                 = Remaining(lastWrite.range.sheet, lastWrite.effectiveStartRow)
            /\ lastWrite.effectiveStartRow > lastRow[lastWrite.range.sheet]
                 => lastWrite.success

\* The header row an 'auto' start row is resolved against: the one last
\* handed to setHeaderRow for the sheet, or 1.
HeaderRowOf(sheet) == IF headerPref[sheet].set THEN headerPref[sheet].n ELSE 1

\* C8: an 'auto' start row resolves to headerRow+1, for the header row last
\* stored by setHeaderRow for the sheet, or to 2 when none is stored; in the
\* read and in the write alike.
C8_AutoStartBelowHeader ==
    /\ (lastRead.called /\ lastRead.range.sheet \in SheetNames
          /\ lastRead.range.startRow.auto) =>
            lastRead.effectiveStartRow = HeaderRowOf(lastRead.range.sheet) + 1
    /\ (lastWrite.called /\ lastWrite.range.sheet \in SheetNames
          /\ lastWrite.range.startRow.auto) =>
            lastWrite.effectiveStartRow = HeaderRowOf(lastWrite.range.sheet) + 1

\* C8 witness: a write with an 'auto' start row on a sheet whose header row
\* was set, while the other sheet has none stored.
C8_AutoWriteAfterSetHeaderRow ==
    /\ lastWrite.called
    /\ lastWrite.range.startRow.auto
    /\ lastWrite.range.sheet = "Sheet2"
    /\ headerPref["Sheet2"].set
    /\ headerPref["Sheet2"].n = MaxHeader
    /\ ~headerPref["Sheet1"].set
    /\ lastWrite.effectiveStartRow = MaxHeader + 1

\* The prompts that hold the cue "search the web" in some letter case.
PromptsWithCue == {PromptCueLower, PromptCueMixed}

\* The model identifiers of the search family.
SearchFamilyModels == {SonarSmall, SonarLarge, SonarHuge, SonarPro}

\* C9: with the cue in the prompt every per-row call is a search call, its
\* model the caller's when of the search family and the default otherwise;
\* without the cue the caller's model type and model are used unchanged.
C9_SearchCueForcesSearch ==
    /\ \A i \in 1..Len(calls) :
          IF config.prompt \in PromptsWithCue
          THEN /\ calls[i].type = "search"
               /\ calls[i].model =
                    IF config.model \in SearchFamilyModels THEN config.model
                    ELSE SonarSmall
          ELSE /\ calls[i].type = config.modelType
               /\ calls[i].model = config.model
    /\ \A k \in 1..Len(requests) :
          /\ requests[k].model = calls[k].model
          /\ requests[k].provider = "perplexity" <=> config.prompt \in PromptsWithCue
                                                       \/ config.modelType = "search"

\* C9 witness: a mixed-case cue turned an image invocation with a generation
\* model into search requests with the default search model.
C9_CueOverridesImage ==
    /\ config.prompt = PromptCueMixed
    /\ config.modelType = "image"
    /\ config.model = Gpt4
    /\ requests # <<>>
    /\ requests[1].provider = "perplexity"
    /\ requests[1].model = SonarSmall

NothingTouched == reads = <<>> /\ requests = <<>> /\ calls = <<>> /\ writes = <<>>

\* C10 as stated: an invocation with start row 0 or negative returns
\* success=false with the invalid-start-row message, and reads nothing, calls
\* no provider and writes nothing.
C10_InvalidStartRowMessage ==
    (pc = "done" /\ config.startRow < 1) =>
        /\ ~result.success
        /\ result.message = MsgInvalidStartRow
        /\ NothingTouched

\* C10 amended: an invocation with start row 0 or negative returns
\* success=false, reads nothing, calls no provider and writes nothing; its
\* message is the invalid-start-row message when the effective model type is
\* one of the three recognised and the invalid-model-type message otherwise.
C10_InvalidStartRowRejected ==
    (pc = "done" /\ config.startRow < 1) =>
        /\ ~result.success
        /\ NothingTouched
        /\ result.message =
             IF config.prompt \in PromptsWithCue \/ config.modelType \in ModelTypes
             THEN MsgInvalidStartRow
             ELSE MsgInvalidModelType

\* C10 witness: an invocation with start row 0 returned the invalid-start-row
\* message.
C10_StartRowZeroRejected ==
    /\ pc = "done"
    /\ config.startRow = 0
    /\ result.message = MsgInvalidStartRow

\* C11: when the read returns no rows, the invocation returns success=false
\* with the no-input message, by a plain return and not through an error, and
\* it calls no provider and writes nothing.
C11_EmptyInputReported ==
    (pc = "done" /\ reads # <<>> /\ reads[1].length = 0) =>
        /\ result.returned
        /\ ~result.success
        /\ result.message = MsgNoInput
        /\ ~result.thrown
        /\ ~result.fault
        /\ calls = <<>>
        /\ requests = <<>>
        /\ writes = <<>>

\* C11 witness: an invocation on an input sheet that has no populated row.
C11_SheetWithoutRows ==
    /\ pc = "done"
    /\ config.inputSheet \in SheetNames
    /\ lastRow[config.inputSheet] = 0
    /\ reads # <<>>
    /\ reads[1].length = 0
    /\ result.message = MsgNoInput

\* The invocation got as far as dispatching its per-row calls with a model.
Dispatched == calls # <<>> /\ config.model # <<>>

\* C12 as stated: an invocation with model type image returns success=false
\* with the not-implemented message, sends no request to a provider and
\* writes nothing.
C12_ImageNeverCallsProvider ==
    config.modelType = "image" =>
        /\ requests = <<>>
        /\ writes = <<>>
        /\ pc = "done" => ~result.success
        /\ (pc = "done" /\ Dispatched) => result.message = MsgImage

\* C12 amended: the same, for an image invocation whose prompt does not hold
\* the search cue (with the cue the invocation is dispatched as a search).
C12_ImageWithoutCueRejected ==
    (config.modelType = "image" /\ config.prompt \notin PromptsWithCue) =>
        /\ requests = <<>>
        /\ writes = <<>>
        /\ pc = "done" => ~result.success
        /\ (pc = "done" /\ Dispatched) => result.message = MsgImage

\* C12 witness: an image invocation with input rows was rejected as not
\* implemented.
C12_ImageRejected ==
    /\ pc = "done"
    /\ config.modelType = "image"
    /\ Dispatched
    /\ result.message = MsgImage
    /\ \A i \in 1..Len(calls) : calls[i].state = "failed"

HasGenerationKey == "OPENAI_API_KEY" \in scriptProps \/ "API_KEY" \in scriptProps

\* The search credential is stored.
HasSearchKey == "PERPLEXITY_API_KEY" \in scriptProps

\* The errors of a missing credential.
CredentialErrors == {AIModelError(MsgOpenAIKey), SearchModelError(MsgPerplexityKey)}

\* C14: a generation call fails with the credential error, before any
\* request, exactly when no generation credential is stored; a search call
\* fails with its credential error, before any request, exactly when
\* PERPLEXITY_API_KEY is absent; the other provider's credential plays no part.
C14_CredentialPerProvider ==
    (calls # <<>> /\ calls[1].model # <<>>) =>
        \A i \in 1..Len(calls) :
            /\ (calls[i].type = "language" /\ ~HasGenerationKey) =>
                  /\ calls[i].state = "failed"
                  /\ calls[i].error = AIModelError(MsgOpenAIKey)
                  /\ requests = <<>>
            /\ (calls[i].type = "language" /\ HasGenerationKey) =>
                  /\ calls[i].error \notin CredentialErrors
                  /\ Len(requests) = Len(calls)
                  /\ requests[i].provider = "openai"
            /\ (calls[i].type = "search" /\ ~HasSearchKey) =>
                  /\ calls[i].state = "failed"
                  /\ calls[i].error = SearchModelError(MsgPerplexityKey)
                  /\ requests = <<>>
            /\ (calls[i].type = "search" /\ HasSearchKey) =>
                  /\ calls[i].error \notin CredentialErrors
                  /\ calls[i].model \in ValidModels =>
                        /\ Len(requests) = Len(calls)
                        /\ requests[i].provider = "perplexity"

\* C14 witness: a generation call failed for its missing credential although
\* the search credential is stored.
C14_GenerationKeyMissingSearchKeyStored ==
    /\ pc = "done"
    /\ scriptProps = {"PERPLEXITY_API_KEY"}
    /\ calls # <<>>
    /\ calls[1].type = "language"
    /\ calls[1].error = AIModelError(MsgOpenAIKey)
    /\ result.message = AIModelError(MsgOpenAIKey)
    /\ requests = <<>>

\* C14 second case, the other way round: a search call was sent with only
\* the search credential stored.
C14_SearchSentWithoutGenerationKey ==
    /\ scriptProps = {"PERPLEXITY_API_KEY"}
    /\ calls # <<>>
    /\ calls[1].type = "search"
    /\ Len(requests) = Len(calls)

\* C15: at most one request is sent for each input row; a provider-reported
\* error ends the invocation at once with that model error and no write; and
\* a successful invocation has sent exactly one request per row read.
C15_NoRetries ==
    /\ Len(requests) <= Len(calls)
    /\ \A j, k \in 1..Len(requests) :
          requests[j].index = requests[k].index => j = k
    /\ \A i \in 1..Len(calls) :
          calls[i].error = ProviderError(calls[i].type) =>
              /\ pc = "done"
              /\ ~result.success
              /\ result.message = calls[i].error
              /\ writes = <<>>
              /\ Cardinality({k \in 1..Len(requests) : requests[k].index = i}) = 1
    /\ (pc = "done" /\ result.success) =>
          /\ Len(requests) = reads[1].length
          /\ \A k \in 1..Len(requests) : requests[k].index = k

\* C15 witness: a batch of several rows ended on a provider-reported error
\* with one request sent per row.
C15_ProviderErrorEndedBatch ==
    /\ pc = "done"
    /\ Len(calls) >= 2
    /\ Len(requests) = Len(calls)
    /\ \E i \in 1..Len(calls) : calls[i].error = ProviderError(calls[i].type)
    /\ result.message = ProviderError(calls[1].type)

\* C16: when processCustomPrompt returns success, the number of cells written
\* equals the number of results, which equals the number of rows read, also
\* when the output sheet ends above the last row of the window.
C16_EveryResultWritten ==
    (pc = "done" /\ result.success) =>
        /\ Len(result.results) = reads[1].length
        /\ writes # <<>>
        /\ Cardinality(writes[1].rowsWritten) = Len(result.results)

\* C17: with the search cue in the prompt, the model that reaches the search
\* call is one of the whitelisted identifiers, and no call fails with the
\* invalid-search-model error.
C17_CueModelWhitelisted ==
    (config # NoConfig /\ config.prompt \in PromptsWithCue) =>
        \A i \in 1..Len(calls) :
            /\ calls[i].type = "search"
            /\ calls[i].model \in ValidModels
            /\ calls[i].error # SearchModelError(MsgInvalidSearchModel)

====
